---------------------------- MODULE Spec2Model ----------------------------
(***************************************************************************)
(* Model of stellar_graph.py: a Streamlit script that is re-executed top   *)
(* to bottom for every slider interaction.  The script keeps one value in  *)
(* st.session_state (T_current), computes the Stefan-Boltzmann luminosity  *)
(* in IEEE-754 binary64 arithmetic, draws a chart and formats two lines of *)
(* text.                                                                   *)
(*                                                                         *)
(* Arithmetic.  TLC integers are 32 bits wide, the program's numbers are   *)
(* not (T**4 reaches 2.07e16, luminosity 7.2e27).  Natural numbers are     *)
(* therefore little-endian sequences of limbs in base 2^15, and a Python   *)
(* float is a record [m, e] that stands for m * 2^e with m a 53-bit        *)
(* natural (or zero).  Every float operation computes the exact result and *)
(* rounds it once to 53 bits, ties to even, as IEEE-754 does.  Exponent    *)
(* range (overflow, subnormals) is not modelled: every value of the        *)
(* program lies between 1e-20 and 1e30.                                    *)
(***************************************************************************)
EXTENDS Integers, Sequences, FiniteSets, TLC

(***************************************************************************)
(* Natural numbers of unbounded width.                                     *)
(***************************************************************************)
LimbBits == 15
Base == 2^LimbBits

\* TLC evaluates an argument where it is first used, which may be deep inside a
\* recursion; Evaluated(x) is TRUE and makes TLC evaluate x here
Evaluated(x) == x = x

Max(a, b) == IF a >= b THEN a ELSE b
Min(a, b) == IF a <= b THEN a ELSE b

Limb(a, i) == IF i <= Len(a) THEN a[i] ELSE 0

RECURSIVE BigNorm(_)
BigNorm(a) ==
    IF a = <<>> THEN <<>>
    ELSE IF a[Len(a)] = 0 THEN BigNorm(SubSeq(a, 1, Len(a) - 1))
    ELSE a

RECURSIVE BigFromInt(_)
BigFromInt(n) ==
    IF n = 0 THEN <<>> ELSE <<n % Base>> \o BigFromInt(n \div Base)

BigToInt(a) ==
    Limb(a, 1) + Base * Limb(a, 2)

RECURSIVE BigAddFrom(_, _, _, _)
BigAddFrom(a, b, i, carry) ==
    IF i > Len(a) /\ i > Len(b)
    THEN IF carry = 0 THEN <<>> ELSE <<carry>>
    ELSE LET s == Limb(a, i) + Limb(b, i) + carry
         IN  <<s % Base>> \o BigAddFrom(a, b, i + 1, s \div Base)

BigAdd(a, b) == BigAddFrom(a, b, 1, 0)

RECURSIVE BigSubFrom(_, _, _, _)
BigSubFrom(a, b, i, borrow) ==
    IF i > Len(a) THEN <<>>
    ELSE LET d == a[i] - Limb(b, i) - borrow
         IN  IF d < 0 THEN <<d + Base>> \o BigSubFrom(a, b, i + 1, 1)
             ELSE <<d>> \o BigSubFrom(a, b, i + 1, 0)

\* a - b for a >= b
BigSub(a, b) == BigNorm(BigSubFrom(a, b, 1, 0))

RECURSIVE BigCmpFrom(_, _, _)
BigCmpFrom(a, b, i) ==
    IF i = 0 THEN 0
    ELSE IF a[i] < b[i] THEN -1
    ELSE IF a[i] > b[i] THEN 1
    ELSE BigCmpFrom(a, b, i - 1)

\* -1, 0, 1 as a < b, a = b, a > b (both in normal form)
BigCmp(a, b) ==
    IF Len(a) < Len(b) THEN -1
    ELSE IF Len(a) > Len(b) THEN 1
    ELSE BigCmpFrom(a, b, Len(a))

BigLess(a, b) == BigCmp(a, b) < 0
BigLeq(a, b) == BigCmp(a, b) <= 0

RECURSIVE BigMulSmallFrom(_, _, _, _)
BigMulSmallFrom(a, k, i, carry) ==
    IF i > Len(a)
    THEN IF carry = 0 THEN <<>> ELSE <<carry>>
    ELSE LET p == a[i] * k + carry
         IN  <<p % Base>> \o BigMulSmallFrom(a, k, i + 1, p \div Base)

\* a * k for 0 <= k < Base
BigMulSmall(a, k) ==
    IF k = 0 THEN <<>> ELSE BigMulSmallFrom(a, k, 1, 0)

Zeros(n) == [i \in 1..n |-> 0]

RECURSIVE BigMulFrom(_, _, _)
BigMulFrom(a, b, j) ==
    IF j > Len(b) THEN <<>>
    ELSE BigAdd(IF b[j] = 0 THEN <<>> ELSE Zeros(j - 1) \o BigMulSmall(a, b[j]),
                BigMulFrom(a, b, j + 1))

BigMul(a, b) ==
    IF a = <<>> \/ b = <<>> THEN <<>> ELSE BigMulFrom(a, b, 1)

RECURSIVE IntBitLen(_)
IntBitLen(n) == IF n = 0 THEN 0 ELSE 1 + IntBitLen(n \div 2)

\* number of binary digits of a
BitLen(a) ==
    IF a = <<>> THEN 0 ELSE LimbBits * (Len(a) - 1) + IntBitLen(a[Len(a)])

\* a * 2^k
BigShl(a, k) ==
    IF a = <<>> THEN <<>>
    ELSE Zeros(k \div LimbBits) \o BigMulSmall(a, 2^(k % LimbBits))

RECURSIVE BigDivSmallFrom(_, _, _, _)
BigDivSmallFrom(a, k, i, rem) ==
    IF i = 0 THEN <<>>
    ELSE LET cur == rem * Base + a[i]
         IN  BigDivSmallFrom(a, k, i - 1, cur % k) \o <<cur \div k>>

\* a \div k for 0 < k < Base
BigDivSmall(a, k) == BigNorm(BigDivSmallFrom(a, k, Len(a), 0))

\* a \div 2^k
BigShr(a, k) ==
    IF k \div LimbBits >= Len(a) THEN <<>>
    ELSE BigDivSmall(SubSeq(a, k \div LimbBits + 1, Len(a)), 2^(k % LimbBits))

\* a % 2^k
BigLowBits(a, k) ==
    LET full == k \div LimbBits
        part == k % LimbBits
    IN  IF full >= Len(a) THEN a
        ELSE BigNorm(SubSeq(a, 1, full) \o <<a[full + 1] % (2^part)>>)

BigIsOdd(a) == a # <<>> /\ a[1] % 2 = 1

RECURSIVE QuotientDigit(_, _, _, _)
\* the largest k in lo..hi with b * k <= cur, given b * lo <= cur
QuotientDigit(cur, b, lo, hi) ==
    IF lo = hi THEN lo
    ELSE LET mid == (lo + hi + 1) \div 2
         IN  IF BigLeq(BigMulSmall(b, mid), cur)
             THEN QuotientDigit(cur, b, mid, hi)
             ELSE QuotientDigit(cur, b, lo, mid - 1)

\* the digit of the quotient for the running remainder cur: c2, the two leading limbs
\* of cur, and bn, the leading limb of b, bracket it
DivDigit(cur, b, c2, bn) ==
    QuotientDigit(cur, b, c2 \div (bn + 1), Min(Base - 1, (c2 + 1) \div bn))

\* the digit k put before the quotient q of the higher limbs, and what is left of cur
DivStep(cur, b, q, k) == <<BigNorm(<<k>> \o q), BigSub(cur, BigMulSmall(b, k))>>

\* one limb of the long division, from the running remainder cur
DivLimb(cur, b, q) ==
    DivStep(cur, b, q,
            DivDigit(cur, b, Limb(cur, Len(b) + 1) * Base + Limb(cur, Len(b)), b[Len(b)]))

RECURSIVE BigDivModFrom(_, _, _)
\* <<quotient, remainder>> of the limbs i..Len(a) of a divided by b
BigDivModFrom(a, b, i) ==
    IF i > Len(a) THEN <<(<<>>), <<>>>>
    ELSE LET hi == BigDivModFrom(a, b, i + 1)
         IN  DivLimb(BigNorm(<<a[i]>> \o hi[2]), b, hi[1])

\* the remainder of a division of operands scaled by 2^sh, scaled back
Unscaled(qr, sh) == <<qr[1], BigShr(qr[2], sh)>>

\* <<a \div b, a % b>> for b > 0, by long division; both operands are first scaled
\* by 2^sh, so that the leading limb of b is at least Base / 2
BigDivModScaled(a, b, sh) == Unscaled(BigDivModFrom(BigShl(a, sh), BigShl(b, sh), 1), sh)

BigDivMod(a, b) ==
    IF Evaluated(a) /\ Evaluated(b)
    THEN BigDivModScaled(a, b, LimbBits - IntBitLen(b[Len(b)]))
    ELSE <<>>

RECURSIVE BigPow(_, _)
BigPow(a, n) == IF n = 0 THEN <<1>> ELSE BigMul(a, BigPow(a, n - 1))

RECURSIVE BigFromDigits(_)
\* the natural number written with the decimal digits ds
BigFromDigits(ds) ==
    IF ds = <<>> THEN <<>>
    ELSE BigAdd(BigMulSmall(BigFromDigits(SubSeq(ds, 1, Len(ds) - 1)), 10),
                BigFromInt(ds[Len(ds)]))

Pow10(n) == BigPow(<<10>>, n)

(***************************************************************************)
(* Python floats (IEEE-754 binary64): [m |-> mantissa, e |-> exponent],    *)
(* value m * 2^e, with BitLen(m) = MantBits, or m = <<>> for 0.0.          *)
(***************************************************************************)
MantBits == 53

FZero == [m |-> <<>>, e |-> 0]

\* q with the cut-off bits r rounded away: up when r is more than half, or is half
\* and q is odd
RoundHalfEven(q, r, half) ==
    IF BigCmp(r, half) > 0 \/ (BigCmp(r, half) = 0 /\ BigIsOdd(q))
    THEN BigAdd(q, <<1>>)
    ELSE q

\* the float q * 2^e for q of MantBits bits, or of one more when rounding carried
FloatOfRounded(q, e) ==
    IF BitLen(q) > MantBits THEN [m |-> BigShr(q, 1), e |-> e + 1] ELSE [m |-> q, e |-> e]

\* the float nearest to n * 2^e for n of len bits
RoundToLen(n, e, len) ==
    IF len <= MantBits
    THEN [m |-> BigShl(n, MantBits - len), e |-> e - (MantBits - len)]
    ELSE FloatOfRounded(RoundHalfEven(BigShr(n, len - MantBits),
                                      BigLowBits(n, len - MantBits),
                                      BigShl(<<1>>, len - MantBits - 1)),
                        e + (len - MantBits))

\* the float nearest to n * 2^e, ties to even
RoundToFloat(n, e) ==
    IF ~(Evaluated(n) /\ Evaluated(e)) \/ n = <<>> THEN FZero
    ELSE RoundToLen(n, e, BitLen(n))

\* the quotient with one more bit, which records whether anything was cut off
StickyQuotient(qr) ==
    BigAdd(BigMulSmall(qr[1], 2), IF qr[2] = <<>> THEN <<>> ELSE <<1>>)

\* (n / d) * 2^e rounded, the quotient taken with n / d scaled by 2^s to MantBits + 2
\* or MantBits + 3 bits
RoundRatioScaled(n, d, e, s) ==
    RoundToFloat(StickyQuotient(BigDivMod(IF s > 0 THEN BigShl(n, s) ELSE n,
                                          IF s < 0 THEN BigShl(d, 0 - s) ELSE d)),
                 e - s - 1)

\* the float nearest to (n / d) * 2^e for naturals n, d with d > 0
RoundRatio(n, d, e) ==
    IF ~(Evaluated(n) /\ Evaluated(d)) \/ n = <<>> THEN FZero
    ELSE RoundRatioScaled(n, d, e, (MantBits + 2) - (BitLen(n) - BitLen(d)))

\* float(n) for a Python int n >= 0
FromBig(n) == RoundToFloat(n, 0)
FromInt(n) == FromBig(BigFromInt(n))

\* the float nearest to n * 10^p10 for a natural n
FloatOfDecimal(n, p10) ==
    IF p10 >= 0 THEN FromBig(BigMul(n, Pow10(p10)))
    ELSE RoundRatio(n, Pow10(0 - p10), 0)

\* the float a decimal literal with these digits, times 10^p10, denotes
FromDecimal(digits, p10) == FloatOfDecimal(BigFromDigits(digits), p10)

FMul(a, b) ==
    IF Evaluated(a) /\ Evaluated(b)
    THEN RoundToFloat(BigMul(a.m, b.m), a.e + b.e)
    ELSE FZero

\* a / b for b > 0
FDiv(a, b) ==
    IF Evaluated(a) /\ Evaluated(b) THEN RoundRatio(a.m, b.m, a.e - b.e) ELSE FZero

FAdd(a, b) ==
    LET lo == Min(a.e, b.e)
    IN  IF ~(Evaluated(a) /\ Evaluated(b)) THEN FZero
        ELSE IF a.m = <<>> THEN b
        ELSE IF b.m = <<>> THEN a
        ELSE RoundToFloat(BigAdd(BigShl(a.m, a.e - lo), BigShl(b.m, b.e - lo)), lo)

\* -1, 0, 1 as a < b, a = b, a > b, for floats >= 0
FCmp(a, b) ==
    IF a.m = <<>> \/ b.m = <<>>
    THEN (IF a.m = <<>> THEN 0 ELSE 1) - (IF b.m = <<>> THEN 0 ELSE 1)
    ELSE IF a.e < b.e THEN -1
    ELSE IF a.e > b.e THEN 1
    ELSE BigCmp(a.m, b.m)

FLess(a, b) == FCmp(a, b) < 0
FLeq(a, b) == FCmp(a, b) <= 0

\* a - b for floats a >= b >= 0
FSub(a, b) ==
    LET lo == Min(a.e, b.e)
    IN  IF ~(Evaluated(a) /\ Evaluated(b)) THEN FZero
        ELSE IF b.m = <<>> THEN a
        ELSE RoundToFloat(BigSub(BigShl(a.m, a.e - lo), BigShl(b.m, b.e - lo)), lo)

\* a float as the exact fraction <<n, d>> of naturals
FNum(a) == IF a.e >= 0 THEN BigShl(a.m, a.e) ELSE a.m
FDen(a) == IF a.e >= 0 THEN <<1>> ELSE BigShl(<<1>>, 0 - a.e)

(***************************************************************************)
(* Strings are sequences of one-character strings.                         *)
(***************************************************************************)
Digit(d) == <<"0", "1", "2", "3", "4", "5", "6", "7", "8", "9">>[d + 1]

RECURSIVE DecimalDigits(_)
\* str(n) for an int n >= 0
DecimalDigits(n) ==
    IF n < 10 THEN <<Digit(n)>> ELSE Append(DecimalDigits(n \div 10), Digit(n % 10))

StartsAt(s, sub, i) ==
    /\ i + Len(sub) - 1 <= Len(s)
    /\ SubSeq(s, i, i + Len(sub) - 1) = sub

\* sub in s
Contains(s, sub) == \E i \in 1..Len(s) : StartsAt(s, sub, i)

\* s.find(sub) + 1: the first position of sub in s, 0 when there is none
Find(s, sub) ==
    IF Contains(s, sub)
    THEN CHOOSE i \in 1..Len(s) :
            StartsAt(s, sub, i) /\ \A j \in 1..(i - 1) : ~StartsAt(s, sub, j)
    ELSE 0

RECURSIVE Split(_, _)
\* s.split(sep): the list of the pieces of s between the occurrences of sep
Split(s, sep) ==
    LET i == Find(s, sep)
    IN  IF i = 0 THEN <<s>>
        ELSE <<SubSeq(s, 1, i - 1)>> \o Split(SubSeq(s, i + Len(sep), Len(s)), sep)

(***************************************************************************)
(* "{:.2e}".format(v) and f"{v:1.1f}": the exact value of the float is     *)
(* rounded to the digits asked for, ties to even.                          *)
(***************************************************************************)
RECURSIVE ExpUp(_, _, _)
\* the largest x >= x0 with p * 10^(x - x0) <= n, given p <= n
ExpUp(n, p, x0) ==
    IF BigLeq(BigMulSmall(p, 10), n) THEN ExpUp(n, BigMulSmall(p, 10), x0 + 1) ELSE x0

RECURSIVE ExpDown(_, _, _)
\* minus the least k >= k0 with n * 10^(k - k0) >= d
ExpDown(n, d, k0) ==
    IF BigLess(n, d) THEN ExpDown(BigMulSmall(n, 10), d, k0 + 1) ELSE 0 - k0

\* floor(log10(v)) for a float v > 0
DecimalExponent(v) ==
    IF BigLeq(FDen(v), FNum(v)) THEN ExpUp(FNum(v), FDen(v), 0)
    ELSE ExpDown(FNum(v), FDen(v), 0)

\* the quotient qr[1] rounded by the remainder qr[2] of a division by d, ties to even
RoundQuotient(qr, d) ==
    IF \/ BigCmp(BigMulSmall(qr[2], 2), d) > 0
       \/ (BigCmp(BigMulSmall(qr[2], 2), d) = 0 /\ BigIsOdd(qr[1]))
    THEN BigAdd(qr[1], <<1>>)
    ELSE qr[1]

\* n / d rounded to an integer, ties to even
RoundDiv(n, d) == RoundQuotient(BigDivMod(n, d), d)

\* the three digits cut off instead of rounded
ScientificTruncated(v) ==
    LET x0 == DecimalExponent(v)
        q0 == BigToInt(BigDivMod(BigMul(FNum(v), Pow10(Max(0, 2 - x0))),
                                 BigMul(FDen(v), Pow10(Max(0, x0 - 2))))[1])
    IN  IF ~Evaluated(v) \/ v.m = <<>> THEN [q |-> 0, x |-> 0]
        ELSE [q |-> q0, x |-> x0]

\* v / 10^(x0 - 2) rounded to an integer
ScientificDigits(v, x0) ==
    BigToInt(RoundDiv(BigMul(FNum(v), Pow10(Max(0, 2 - x0))),
                      BigMul(FDen(v), Pow10(Max(0, x0 - 2)))))

\* the digits q0 at exponent x0; digits rounded up to 1000 are 100 at the next exponent
ScientificCarried(q0, x0) ==
    IF q0 = 1000 THEN [q |-> 100, x |-> x0 + 1] ELSE [q |-> q0, x |-> x0]

\* v as q * 10^(x - 2) with q the three significant digits, for a float v >= 0
Scientific(v) ==
    IF ~Evaluated(v) \/ v.m = <<>> THEN [q |-> 0, x |-> 0]
    ELSE ScientificCarried(ScientificDigits(v, DecimalExponent(v)), DecimalExponent(v))

\* the exponent's digits: at least two
ExponentDigits(ax) == (IF ax < 10 THEN <<"0">> ELSE <<>>) \o DecimalDigits(ax)

\* d.dde+xx or d.dde-xx
FormatScientific(sc) ==
    <<Digit(sc.q \div 100), ".", Digit((sc.q \div 10) % 10), Digit(sc.q % 10),
      "e", IF sc.x < 0 THEN "-" ELSE "+">>
    \o ExponentDigits(IF sc.x < 0 THEN 0 - sc.x ELSE sc.x)

\* "{:.2e}".format(v)
FormatE2(v) == FormatScientific(Scientific(v))

\* the digits of tenths / 10 with one decimal place
FormatTenths(tenths) == DecimalDigits(tenths \div 10) \o <<".", Digit(tenths % 10)>>

\* f"{v:1.1f}" for a float v >= 0
FormatF1(v) ==
    IF ~Evaluated(v) THEN <<>>
    ELSE FormatTenths(BigToInt(RoundDiv(BigMulSmall(FNum(v), 10), FDen(v))))

(***************************************************************************)
(* The script's constants.                                                 *)
(***************************************************************************)
T_min == 3000
T_max == 12000
T_init == 5778

\* sigma = 5.67e-8
sigma == FromDecimal(<<5, 6, 7>>, -10)
\* R = 6.96e8
R == FromDecimal(<<6, 9, 6>>, 6)
\* np.pi, the float 3.141592653589793
np_pi == FromDecimal(<<3, 1, 4, 1, 5, 9, 2, 6, 5, 3, 5, 8, 9, 7, 9, 3>>, -15)

\* T ** 4 wrapped to 32 bits, as a fixed-width integer would compute it
Pow4Wrapped(t) == BigLowBits(BigPow(BigFromInt(t), 4), 32)

\* T ** 4 for a Python int T: exact
Pow4(t) == BigPow(BigFromInt(t), 4)

\* the factor with R in place of R**2
StefanFactorRadiusNotSquared == FMul(FMul(FMul(FromInt(4), np_pi), R), sigma)

\* 4 * np.pi * R**2 * sigma, evaluated left to right
StefanFactor == FMul(FMul(FMul(FromInt(4), np_pi), FMul(R, R)), sigma)

\* def luminosity(T): return 4 * np.pi * R**2 * sigma * T**4
luminosity(t) == FMul(StefanFactor, FromBig(Pow4(t)))

\* the position without the offset: T / (T_max - T_min)
NormalizedNoOffset(t) == RoundRatio(BigFromInt(t), BigFromInt(T_max - T_min), 0)

\* (T - T_min) / (T_max - T_min) for an int T >= T_min: Python's true division
Normalized(t) == RoundRatio(BigFromInt(t - T_min), BigFromInt(T_max - T_min), 0)

\* the y range scaled to the default temperature instead of T_max
ylimOfDefault == <<FZero, FMul(luminosity(T_init), FromDecimal(<<1, 1>>, -1))>>

\* ax.set_ylim(0, luminosity(T_max) * 1.1)
ylim == <<FZero, FMul(luminosity(T_max), FromDecimal(<<1, 1>>, -1))>>

\* np.linspace(T_min, T_max, 400): start + i * step with step = (stop - start) / (num - 1),
\* the last sample set to stop
num == 400
linspace_step == FDiv(FromInt(T_max - T_min), FromInt(num - 1))
T_vals ==
    [i \in 1..num |->
        IF i = num THEN FromInt(T_max)
        ELSE FAdd(FMul(FromInt(i - 1), linspace_step), FromInt(T_min))]

\* colors = cm.RdYlBu((T_vals - T_min) / (T_max - T_min)): the positions looked up
colors ==
    [i \in 1..num |-> FDiv(FSub(T_vals[i], FromInt(T_min)), FromInt(T_max - T_min))]

(***************************************************************************)
(* st.session_state: a set of <<key, value>> pairs, one pair per key.      *)
(***************************************************************************)
Has(ss, key) == \E kv \in ss : kv[1] = key
Get(ss, key) == (CHOOSE kv \in ss : kv[1] = key)[2]
Set(ss, key, value) == {kv \in ss : kv[1] # key} \cup {<<key, value>>}

\* the initialization with T_min as the default
InitializeWithMin(ss) ==
    IF ~Has(ss, "T_current") THEN Set(ss, "T_current", T_min) ELSE ss

\* the initialization without its guard
InitializeAlways(ss) == Set(ss, "T_current", T_init)

\* if 'T_current' not in st.session_state: st.session_state.T_current = T_init
Initialize(ss) ==
    IF ~Has(ss, "T_current") THEN Set(ss, "T_current", T_init) ELSE ss

\* the slider's arguments
min_value == T_min
max_value == T_max
step == 10

\* the values of a slider declared with min_value = 0
SliderValuesFromZero == {k * step : k \in 0..(max_value \div step)}

\* the values the slider widget can send: min_value + k * step up to max_value
SliderValues == {min_value + k * step : k \in 0..((max_value - min_value) \div step)}

(***************************************************************************)
(* The text under the slider.                                              *)
(***************************************************************************)
\* the 'e-' branch without the sign it puts back
SplitExponentUnsigned(formatted_L) ==
    IF Contains(formatted_L, <<"e", "+">>)
    THEN LET parts == Split(formatted_L, <<"e", "+">>)
         IN  [base |-> parts[1], exponent |-> parts[2]]
    ELSE IF Contains(formatted_L, <<"e", "-">>)
    THEN LET parts == Split(formatted_L, <<"e", "-">>)
         IN  [base |-> parts[1], exponent |-> parts[2]]
    ELSE [base |-> formatted_L, exponent |-> <<"0">>]

\* lines 103-111: formatted_L split into base and exponent
SplitExponent(formatted_L) ==
    IF Contains(formatted_L, <<"e", "+">>)
    THEN LET parts == Split(formatted_L, <<"e", "+">>)
         IN  [base |-> parts[1], exponent |-> parts[2]]
    ELSE IF Contains(formatted_L, <<"e", "-">>)
    THEN LET parts == Split(formatted_L, <<"e", "-">>)
         IN  [base |-> parts[1], exponent |-> <<"-">> \o parts[2]]
    ELSE [base |-> formatted_L, exponent |-> <<"0">>]

\* the reference luminosity 3.83e26 of the last sentence
L_sun == FromDecimal(<<3, 8, 3>>, 24)

\* the two st.markdown calls: base, exponent and the ratio to the Sun
TextLines(formatted_L, parts, ratio) ==
    [shown       |-> TRUE,
     formatted_L |-> formatted_L,
     base        |-> parts.base,
     exponent    |-> parts.exponent,
     ratio       |-> ratio]

TextOfFormatted(formatted_L, ratio) ==
    TextLines(formatted_L, SplitExponent(formatted_L), ratio)

TextOutput(L) == TextOfFormatted(FormatE2(L), FormatF1(FDiv(L, L_sun)))

(***************************************************************************)
(* One browser session.  Streamlit runs the script top to bottom when the  *)
(* session starts and again after every change of the slider; every run    *)
(* starts with fresh script variables, st.session_state is what survives.  *)
(* A run is cut at its Streamlit calls: pc names the next block to run.    *)
(***************************************************************************)
VARIABLES
    session_state,   \* st.session_state
    pc,              \* "init", "calc", "figure", "slider", "text": next block of the run;
                     \* "idle": the run is over; "format", "formatted": SpecFormat only
    T,               \* the script's T (0 before line 32 has run)
    L_current,       \* the script's L_current
    color_current,   \* the position the marker's colour is looked up at
    fig,             \* the chart handed to st.pyplot
    slider,          \* the slider widget on the page
    text,            \* the text lines handed to st.markdown
    interacted       \* history: the slider was moved in this session

vars == <<session_state, pc, T, L_current, color_current, fig, slider, text, interacted>>

NoFigure == [drawn |-> FALSE]
NoSlider == [shown |-> FALSE]
NoText == [shown |-> FALSE]

\* the script's variables before a run has assigned them
FreshRun ==
    /\ pc' = "init"
    /\ T' = 0
    /\ L_current' = FZero
    /\ color_current' = FZero
    /\ fig' = NoFigure
    /\ text' = NoText

Init ==
    /\ session_state = {}
    /\ pc = "init"
    /\ T = 0
    /\ L_current = FZero
    /\ color_current = FZero
    /\ fig = NoFigure
    /\ slider = NoSlider
    /\ text = NoText
    /\ interacted = FALSE

\* lines 9-21: page setup and the default of T_current
RunInit ==
    /\ pc = "init"
    /\ pc' = "calc"
    /\ session_state' = Initialize(session_state)
    /\ UNCHANGED <<T, L_current, color_current, fig, slider, text, interacted>>

\* lines 32-36: T, L_current, color_current
RunCalc ==
    /\ pc = "calc"
    /\ pc' = "figure"
    /\ T' = Get(session_state, "T_current")
    /\ L_current' = luminosity(T')
    /\ color_current' = Normalized(T')
    /\ UNCHANGED <<session_state, fig, slider, text, interacted>>

\* lines 40-79: the figure, shown with st.pyplot
RunFigure ==
    /\ pc = "figure"
    /\ pc' = "slider"
    /\ fig' = [drawn   |-> TRUE,
               xlim    |-> <<T_min, T_max>>,
               ylim    |-> ylim,
               scatter |-> [x |-> T_vals, c |-> colors],
               marker  |-> [x |-> T, y |-> L_current, color |-> color_current]]
    /\ UNCHANGED <<session_state, T, L_current, color_current, slider, text, interacted>>

\* lines 85-92: st.slider(..., key='T_current') shows the value session_state holds
RunSlider ==
    /\ pc = "slider"
    /\ pc' = "text"
    /\ slider' = [shown     |-> TRUE,
                  min_value |-> min_value,
                  max_value |-> max_value,
                  step      |-> step,
                  value     |-> Get(session_state, "T_current")]
    /\ UNCHANGED <<session_state, T, L_current, color_current, fig, text, interacted>>

\* lines 96-123: the two lines of text
RunText ==
    /\ pc = "text"
    /\ pc' = "idle"
    /\ text' = TextOutput(L_current)
    /\ UNCHANGED <<session_state, T, L_current, color_current, fig, slider, interacted>>

\* the user moves the slider to v: the widget writes session_state.T_current (its key)
\* and Streamlit runs the script again, abandoning a run that is under way
SliderSet(v) ==
    /\ slider.shown
    /\ v # slider.value
    /\ session_state' = Set(session_state, "T_current", v)
    /\ slider' = [slider EXCEPT !.value = v]
    /\ interacted' = TRUE
    /\ FreshRun

\* the page is reloaded: a new session with an empty session_state
NewSession ==
    /\ session_state # {}
    /\ session_state' = {}
    /\ slider' = NoSlider
    /\ interacted' = FALSE
    /\ FreshRun

Run == RunInit \/ RunCalc \/ RunFigure \/ RunSlider \/ RunText

Next ==
    \/ RunInit
    \/ RunCalc
    \/ RunFigure
    \/ RunSlider
    \/ RunText
    \/ \E v \in SliderValues : SliderSet(v)
    \/ NewSession

Spec == Init /\ [][Next]_vars

(***************************************************************************)
(* The text formatter on its own: lines 100-123 applied to any positive    *)
(* luminosity, the values below 1 included.                                *)
(***************************************************************************)
MaxMantissa == 12
MaxExp10 == 8

\* n * 10^p for short mantissas n and for the mantissas just below 10^4, which round
\* up to the next power of ten
FormatMantissas == (1..MaxMantissa) \cup {10000 - k : k \in 1..MaxMantissa}
FormatInputs ==
    {FloatOfDecimal(BigFromInt(n), p) :
        n \in FormatMantissas, p \in (0 - MaxExp10)..MaxExp10}

InitFormat ==
    /\ session_state = {<<"T_current", T_init>>}
    /\ pc = "text"
    /\ T = 0
    /\ L_current \in FormatInputs
    /\ color_current = FZero
    /\ fig = NoFigure
    /\ slider = NoSlider
    /\ text = NoText
    /\ interacted = FALSE

SpecFormat == InitFormat /\ [][RunText]_vars

(***************************************************************************)
(* Properties.                                                             *)
(***************************************************************************)
AfterCalc == {"figure", "slider", "text", "idle"}

FOne == FromInt(1)

\* the temperatures a session can hold: the default and the slider's values
Temperatures == SliderValues \cup {T_init}

\* luminosity over the session's temperatures
LumTable == [t \in Temperatures |-> luminosity(t)]

\* |v - c| <= c / 1000 for a float v and c = n * 10^p10 with p10 >= 0
WithinTenthPercent(v, n, p10) ==
    LET c    == BigMul(BigMul(BigFromInt(n), Pow10(p10)), FDen(v))
        diff == IF BigLeq(c, FNum(v)) THEN BigSub(FNum(v), c) ELSE BigSub(c, FNum(v))
    IN  BigLeq(BigMul(diff, <<1000>>), c)

IsDigit(c) == c \in {"0", "1", "2", "3", "4", "5", "6", "7", "8", "9"}
DigitValue(c) == CHOOSE d \in 0..9 : Digit(d) = c
AllDigits(str) == Len(str) > 0 /\ \A i \in 1..Len(str) : IsDigit(str[i])

RECURSIVE ParseNat(_)
\* the natural number a string of digits denotes
ParseNat(str) ==
    IF str = <<>> THEN 0
    ELSE 10 * ParseNat(SubSeq(str, 1, Len(str) - 1)) + DigitValue(str[Len(str)])

\* C1: whenever T_current exists in the session it lies in [3000, 12000], and so
\* does the T every run reads from it
C1_TemperatureInRange ==
    /\ Has(session_state, "T_current") =>
          /\ 3000 <= Get(session_state, "T_current")
          /\ Get(session_state, "T_current") <= 12000
    /\ pc \in AfterCalc => 3000 <= T /\ T <= 12000

C1_Witness ==
    /\ interacted
    /\ pc = "idle"
    /\ Get(session_state, "T_current") = 12000
    /\ T = 12000

\* C2: in a session whose slider has not been moved, T_current reads 5778 once the
\* script has initialised it, and the run is computed and drawn for T = 5778
C2_DefaultIs5778 ==
    (~interacted /\ pc # "init") =>
        /\ Get(session_state, "T_current") = 5778
        /\ pc \in AfterCalc => T = 5778 /\ L_current = luminosity(5778)
        /\ fig.drawn => fig.marker.x = 5778 /\ fig.marker.y = luminosity(5778)
        /\ slider.shown => slider.value = 5778
        /\ text.shown => text = TextOutput(luminosity(5778))

C2_Witness ==
    /\ ~interacted
    /\ pc = "idle"
    /\ T = 5778
    /\ fig.drawn
    /\ text.shown

\* C4: luminosity is strictly increasing: the luminosity of the run's T is below that
\* of every higher temperature of the domain and above that of every lower one
C4_StrictlyIncreasing ==
    pc \in AfterCalc =>
        \A t2 \in Temperatures :
            /\ T < t2 => FLess(L_current, LumTable[t2])
            /\ t2 < T => FLess(LumTable[t2], L_current)

C4_Witness ==
    /\ pc = "idle"
    /\ T = 5780
    /\ FLess(LumTable[5778], L_current)
    /\ FLess(L_current, LumTable[5790])

\* C5 as stated: luminosity(3000) is within 0.1% of 1.497e24 and luminosity(12000)
\* within 0.1% of 3.838e27
C5_BoundaryValues_AsStated ==
    pc \in AfterCalc =>
        /\ T = 3000 => WithinTenthPercent(L_current, 1497, 21)
        /\ T = 12000 => WithinTenthPercent(L_current, 3838, 24)

\* C5 amended: luminosity(3000) is within 0.1% of 2.796e25 and luminosity(12000)
\* within 0.1% of 7.157e27
C5_BoundaryValues ==
    pc \in AfterCalc =>
        /\ T = 3000 => WithinTenthPercent(L_current, 2796, 22)
        /\ T = 12000 => WithinTenthPercent(L_current, 7157, 24)

C5_Witness ==
    /\ pc = "idle"
    /\ T = 12000
    /\ WithinTenthPercent(L_current, 7157, 24)
    /\ WithinTenthPercent(LumTable[3000], 2796, 22)

\* C6 as stated: at T = 5778 the text shows mantissa "3.83", exponent "26" and the
\* ratio "1.0"
C6_DefaultText_AsStated ==
    (text.shown /\ T = 5778) =>
        /\ text.base = <<"3", ".", "8", "3">>
        /\ text.exponent = <<"2", "6">>
        /\ text.ratio = <<"1", ".", "0">>

\* C6 amended: at T = 5778 the text shows mantissa "3.85", exponent "26" and the
\* ratio "1.0"
C6_DefaultText ==
    (text.shown /\ T = 5778) =>
        /\ text.base = <<"3", ".", "8", "5">>
        /\ text.exponent = <<"2", "6">>
        /\ text.ratio = <<"1", ".", "0">>

C6_Witness ==
    /\ text.shown
    /\ T = 5778
    /\ ~interacted
    /\ text.base = <<"3", ".", "8", "5">>

\* C7: for every luminosity L > 0 the mantissa shown has the form d.dd and the
\* exponent shown denotes the decimal exponent of L's two-decimal scientific form:
\* one leading "-" and digits when it is negative, digits alone otherwise
C7_ExponentSignKept ==
    (text.shown /\ FLess(FZero, L_current)) =>
        /\ Len(text.base) = 4
        /\ IsDigit(text.base[1])
        /\ text.base[2] = "."
        /\ IsDigit(text.base[3])
        /\ IsDigit(text.base[4])
        /\ LET x == Scientific(L_current).x
           IN  IF x < 0
               THEN /\ text.exponent[1] = "-"
                    /\ AllDigits(Tail(text.exponent))
                    /\ ParseNat(Tail(text.exponent)) = 0 - x
               ELSE /\ AllDigits(text.exponent)
                    /\ ParseNat(text.exponent) = x

\* L = 0.05 is shown as 5.00 x 10^-02
C7_Witness ==
    /\ text.shown
    /\ L_current = FromDecimal(<<5>>, -2)
    /\ text.base = <<"5", ".", "0", "0">>
    /\ text.exponent = <<"-", "0", "2">>

\* |p - a / b| <= (a / b) * 2^(-MantBits): p is the quotient a / b to float precision
IsQuotient(p, a, b) ==
    LET lhs  == BigMul(FNum(p), BigFromInt(b))
        rhs  == BigMul(FDen(p), BigFromInt(a))
        diff == IF BigLeq(lhs, rhs) THEN BigSub(rhs, lhs) ELSE BigSub(lhs, rhs)
    IN  BigLeq(BigShl(diff, MantBits), rhs)

\* C8: the marker's colour is looked up at (T - 3000) / (12000 - 3000), which is 0.0
\* at T = 3000, 1.0 at T = 12000 and in [0, 1] for every T a run reads, and the
\* positions of the 400 curve samples lie in [0, 1], from 0.0 to 1.0
C8_PositionInUnitInterval ==
    /\ pc \in AfterCalc =>
          /\ IsQuotient(color_current, T - 3000, 12000 - 3000)
          /\ FLeq(FZero, color_current)
          /\ FLeq(color_current, FOne)
          /\ T = 3000 => color_current = FZero
          /\ T = 12000 => color_current = FOne
    /\ fig.drawn =>
          /\ Len(fig.scatter.c) = 400
          /\ \A i \in 1..Len(fig.scatter.c) :
                FLeq(FZero, fig.scatter.c[i]) /\ FLeq(fig.scatter.c[i], FOne)
          /\ fig.scatter.c[1] = FZero
          /\ fig.scatter.c[400] = FOne
          /\ fig.marker.color = color_current

C8_Witness ==
    /\ fig.drawn
    /\ T = 12000
    /\ color_current = FOne
    /\ FLess(FZero, fig.scatter.c[2])
    /\ FLess(fig.scatter.c[399], FOne)

\* C9: a step of the script leaves an existing T_current unchanged, the default
\* initialisation included; T_current changes only by a slider set (or with the
\* session, on reload), and is created only by the initialisation
C9_SingleWriter ==
    [][/\ (Run /\ Has(session_state, "T_current")) => session_state' = session_state
       /\ session_state' # session_state =>
            \/ /\ Has(session_state', "T_current")
               /\ Get(session_state', "T_current") \in SliderValues
               /\ SliderSet(Get(session_state', "T_current"))
            \/ NewSession
            \/ RunInit /\ session_state = {}]_vars

\* a run has passed the initialisation with a value the slider set still in place
C9_Witness ==
    /\ interacted
    /\ pc = "calc"
    /\ Get(session_state, "T_current") = 3000

\* C10: the marker lies inside the axis ranges: xlim = [3000, 12000] holds its x and
\* ylim = [0, 1.1 * luminosity(12000)] holds its y
C10_MarkerInsideAxes ==
    fig.drawn =>
        /\ fig.xlim = <<3000, 12000>>
        /\ fig.xlim[1] <= fig.marker.x
        /\ fig.marker.x <= fig.xlim[2]
        /\ fig.marker.y = LumTable[fig.marker.x]
        /\ FLeq(fig.ylim[1], fig.marker.y)
        /\ FLeq(fig.marker.y, fig.ylim[2])
        /\ fig.ylim[1] = FZero
        /\ FLess(LumTable[12000], fig.ylim[2])

C10_Witness ==
    /\ fig.drawn
    /\ fig.marker.x = 12000
    /\ FLess(fig.marker.y, fig.ylim[2])

==========================================================================
